---- MODULE Spec2Model ----
(***************************************************************************)
(* A model of src/eleroapi.py: the EleroAPI HTTP client and the            *)
(* EleroClient facade built on it.                                         *)
(*                                                                         *)
(* One action models one public call (a constructor or a method) together  *)
(* with every request it sends.  The device and the transport are the      *)
(* environment: each action draws the name-resolution results and the      *)
(* responses it receives from small sets.                                  *)
(***************************************************************************)
EXTENDS Integers, Sequences, FiniteSets, TLC

VARIABLES
    pc,                \* "new": nothing constructed; "ready": the constructor
                       \* returned; "failed": the constructor raised
    kind,              \* which class was constructed: "EleroAPI" / "EleroClient"
    api,               \* the EleroAPI object's attributes (lines 28-33, 37-53)
    blinds,            \* EleroClient.blinds (line 126, 134)
    client_device_id,  \* EleroClient.device_id (line 125, 130)
    discovery_active,  \* the device's discovery flag (read and toggled at
                       \* /blinds/indiscovery, lines 91-102)
    issued,            \* history: the access_token carried by the login response
    listed,            \* history: the listing carried by the most recent
                       \* successful /blinds/getblinds response
    run,               \* history: the current run of identical toggle calls
                       \* with nobody else touching the device
    last               \* history: the most recent call, the requests it sent,
                       \* the responses it received, the exception it raised
                       \* and the URLs it passed to LOGGER.error (line 119)

vars == <<pc, kind, api, blinds, client_device_id, discovery_active,
          issued, listed, run, last>>

----------------------------------------------------------------------------
(* Bounds of the model. *)

\* the longest blinds listing the device returns
MaxBlinds == 2

----------------------------------------------------------------------------
(* Values. *)

\* Python's None, as it prints in an f-string (line 47)
None == "None"
\* an attribute that was never assigned (token is only annotated, line 33)
Unset == "<unset>"
\* no exception
NoError == "no error"
\* no WWW-Authenticate header in the request (headers == {}, line 105)
NoHeader == "<no header>"

\* the only status _do_request accepts
HTTP_OK == 200

URL_PING == "/device/ping"
URL_LOGIN == "/users/token"
URL_GETBLINDS == "/blinds/getblinds"
TOGGLE_DISCOVERY == "/blinds/indiscovery"

RASPBERRYPI == "raspberrypi.local"
ELEROPI == "eleropi.local"
Hostnames == {RASPBERRYPI, ELEROPI}

\* the host argument of EleroAPI.__init__ (default None)
Hosts == {None, "192.168.1.10"}
Credentials == {<<"ha_user@local.dns", "ha_user">>}
DeviceIds == {"abc123", "def456"}
Tokens == {"tok1", "tok2"}
BlindIds == {"b1", "b2"}
Blinds == [blind_id : BlindIds]
Listings == UNION {[1..n -> Blinds] : n \in 0..MaxBlinds}
Statuses == {HTTP_OK, 401, 500}

----------------------------------------------------------------------------
(* Exception classes and Python's except matching. *)

Parent(c) ==
    CASE c = "NoDeviceAvailable" -> "BaseException"
      [] c = "EleroRequestError" -> "BaseException"
      [] c = "EleroApiError" -> "ConnectionError"
      [] c = "ConnectionError" -> "OSError"
      [] c = "requests.ConnectionError" -> "requests.RequestException"
      [] c = "requests.JSONDecodeError" -> "requests.RequestException"
      [] c = "requests.RequestException" -> "OSError"
      [] c = "socket.gaierror" -> "OSError"
      [] c = "OSError" -> "Exception"
      [] c = "RuntimeError" -> "Exception"
      [] c = "KeyError" -> "Exception"
      [] c = "Exception" -> "BaseException"
      [] OTHER -> "BaseException"

RECURSIVE IsInstance(_, _)
IsInstance(c, d) ==
    \/ c = d
    \/ c # "BaseException" /\ IsInstance(Parent(c), d)

\* what session.request raises on a connection-level failure: requests wraps
\* every socket error in requests.ConnectionError; a test double standing in
\* for the session may raise the builtin ConnectionError
TransportErrors == {"requests.ConnectionError", "ConnectionError"}

----------------------------------------------------------------------------
(* Responses of the environment. *)

Raise(e, v) ==
    [kind |-> "raise", exc |-> e, status |-> 0, is_json |-> FALSE,
     body |-> [has |-> FALSE, val |-> v]]

Http(s, j, h, v) ==
    [kind |-> "http", exc |-> NoError, status |-> s, is_json |-> j,
     body |-> [has |-> h, val |-> v]]

\* the answers to one request whose consumed field takes its value in V:
\* a transport failure, a body that is not JSON, a JSON body without the
\* field (any status), a JSON body with the field (status 200)
Responses(V) ==
    LET v0 == CHOOSE v \in V : TRUE
    IN  {Raise(e, v0) : e \in TransportErrors}
          \cup {Http(s, FALSE, FALSE, v0) : s \in Statuses}
          \cup {Http(s, TRUE, FALSE, v0) : s \in Statuses}
          \cup {Http(HTTP_OK, TRUE, TRUE, v) : v \in V}

\* the response is a 200 with a JSON body holding the consumed field
Success(resp) ==
    resp.kind = "http" /\ resp.status = HTTP_OK /\ resp.is_json /\ resp.body.has

----------------------------------------------------------------------------
(* EleroAPI. *)

NewApi(cred) ==
    [username |-> cred[1], password |-> cred[2], host |-> Unset,
     baseUrl |-> Unset, isAuthenticated |-> FALSE, token |-> Unset,
     device_id |-> Unset]

\* _do_request attaching the header whatever isAuthenticated says
DoRequestAlwaysAuth(a, url, method, data, is_json, resp) ==
    LET req == [url |-> url, method |-> method, auth |-> a.token,
                encoding |-> IF is_json THEN "json" ELSE "form",
                data |-> data]
        raised == IF resp.kind = "raise" THEN resp.exc
                  ELSE IF ~resp.is_json THEN "requests.JSONDecodeError"
                  ELSE IF resp.status # HTTP_OK THEN "EleroRequestError"
                  ELSE NoError
        caught == raised # NoError /\ IsInstance(raised, "ConnectionError")
    IN  [req |-> req,
         err |-> IF caught THEN "EleroApiError" ELSE raised,
         body |-> resp.body,
         log |-> IF caught THEN {url} ELSE {}]

\* _do_request: the request sent, and the value returned or the exception
\* that leaves the method
DoRequest(a, url, method, data, is_json, resp) ==
    LET headers == IF a.isAuthenticated THEN a.token ELSE NoHeader
        req == [url |-> url, method |-> method, auth |-> headers,
                encoding |-> IF is_json THEN "json" ELSE "form",
                data |-> data]
        raised == IF resp.kind = "raise" THEN resp.exc
                  ELSE IF ~resp.is_json THEN "requests.JSONDecodeError"
                  ELSE IF resp.status # HTTP_OK THEN "EleroRequestError"
                  ELSE NoError
        caught == raised # NoError /\ IsInstance(raised, "ConnectionError")
    IN  [req |-> req,
         err |-> IF caught THEN "EleroApiError" ELSE raised,
         body |-> resp.body,
         log |-> IF caught THEN {url} ELSE {}]

\* r["field"] on the decoded body
Subscript(body) ==
    IF body.has THEN NoError ELSE "KeyError"

\* socket.gethostbyname: an address, or socket.gaierror
gethostbyname(resolves, name) ==
    IF resolves[name]
    THEN [err |-> NoError, ret |-> "address"]
    ELSE [err |-> "socket.gaierror", ret |-> None]

\* _device_available
DeviceAvailable(resolves) ==
    LET r1 == gethostbyname(resolves, RASPBERRYPI)
        r2 == gethostbyname(resolves, ELEROPI)
    IN  IF r1.err # NoError
        THEN [err |-> r1.err, ret |-> None, lookups |-> <<RASPBERRYPI>>]
        ELSE IF r1.ret # None
        THEN [err |-> NoError, ret |-> RASPBERRYPI, lookups |-> <<RASPBERRYPI>>]
        ELSE IF r2.err # NoError
        THEN [err |-> r2.err, ret |-> None,
              lookups |-> <<RASPBERRYPI, ELEROPI>>]
        ELSE IF r2.ret # None
        THEN [err |-> NoError, ret |-> ELEROPI,
              lookups |-> <<RASPBERRYPI, ELEROPI>>]
        ELSE [err |-> NoError, ret |-> None,
              lookups |-> <<RASPBERRYPI, ELEROPI>>]

\* Below, CHOOSE x \in {e(p) : p \in {v}} : TRUE is e(v): the value of a call
\* is bound to p once and e uses it several times.

\* _ping
Ping(a, resp) ==
    LET r == DoRequest(a, a.baseUrl \o URL_PING, "GET", <<>>, TRUE, resp)
        err == IF r.err # NoError THEN r.err ELSE Subscript(r.body)
    IN  [api |-> IF err = NoError
                 THEN [a EXCEPT !.device_id = r.body.val] ELSE a,
         err |-> err, sent |-> <<r.req>>, log |-> r.log]

\* _login
Login(a, resp) ==
    LET data == <<a.username, a.password>>
        r == DoRequest(a, a.baseUrl \o URL_LOGIN, "POST", data, FALSE, resp)
        err == IF r.err # NoError THEN r.err ELSE Subscript(r.body)
    IN  [api |-> IF r.err # NoError THEN a
                 ELSE IF err # NoError THEN [a EXCEPT !.isAuthenticated = TRUE]
                 ELSE [a EXCEPT !.isAuthenticated = TRUE,
                                !.token = r.body.val],
         err |-> err, sent |-> <<r.req>>, log |-> r.log]

\* EleroAPI.__init__ going on to the login although the ping failed
ApiInitIgnoringPing(cred, host, autodiscovery, isLocal, resolves, pingResp, loginResp) ==
    LET a0 == NewApi(cred)
        d == IF autodiscovery THEN DeviceAvailable(resolves)
             ELSE [err |-> NoError, ret |-> host, lookups |-> <<>>]
        derr == IF d.err = NoError THEN NoError
                ELSE IF IsInstance(d.err, "RuntimeError")
                THEN "NoDeviceAvailable"
                ELSE d.err
        a1 == [a0 EXCEPT !.host = d.ret]
        a2 == [a1 EXCEPT !.baseUrl = IF ~isLocal
                                     THEN "http://" \o a1.host \o ":8000"
                                     ELSE "http://localhost:8000",
                         !.device_id = None]
        AfterPing(p) ==
            (CHOOSE x \in {[api |-> l.api, err |-> l.err,
                  sent |-> p.sent \o l.sent, log |-> p.log \cup l.log,
                  lookups |-> d.lookups] :
                 l \in {Login(p.api, loginResp)}} : TRUE)
    IN  IF derr # NoError
        THEN [api |-> a0, err |-> derr, sent |-> <<>>, log |-> {},
              lookups |-> d.lookups]
        ELSE (CHOOSE x \in {AfterPing(p) : p \in {Ping(a2, pingResp)}} : TRUE)

\* EleroAPI.__init__
ApiInit(cred, host, autodiscovery, isLocal, resolves, pingResp, loginResp) ==
    LET a0 == NewApi(cred)
        d == IF autodiscovery THEN DeviceAvailable(resolves)
             ELSE [err |-> NoError, ret |-> host, lookups |-> <<>>]
        derr == IF d.err = NoError THEN NoError
                ELSE IF IsInstance(d.err, "RuntimeError")
                THEN "NoDeviceAvailable"
                ELSE d.err
        a1 == [a0 EXCEPT !.host = d.ret]
        a2 == [a1 EXCEPT !.baseUrl = IF ~isLocal
                                     THEN "http://" \o a1.host \o ":8000"
                                     ELSE "http://localhost:8000",
                         !.device_id = None]
        AfterPing(p) ==
            IF p.err # NoError
            THEN [api |-> p.api, err |-> p.err, sent |-> p.sent,
                  log |-> p.log, lookups |-> d.lookups]
            ELSE (CHOOSE x \in {[api |-> l.api, err |-> l.err,
                       sent |-> p.sent \o l.sent, log |-> p.log \cup l.log,
                       lookups |-> d.lookups] :
                      l \in {Login(p.api, loginResp)}} : TRUE)
    IN  IF derr # NoError
        THEN [api |-> a0, err |-> derr, sent |-> <<>>, log |-> {},
              lookups |-> d.lookups]
        ELSE (CHOOSE x \in {AfterPing(p) : p \in {Ping(a2, pingResp)}} : TRUE)

\* get_blinds
GetBlinds(a, resp) ==
    LET r == DoRequest(a, a.baseUrl \o URL_GETBLINDS, "GET", <<>>, TRUE, resp)
    IN  [err |-> IF r.err # NoError THEN r.err ELSE Subscript(r.body),
         ret |-> r.body.val, sent |-> <<r.req>>, log |-> r.log]

\* get_blind
GetBlind(a, blindId, resp) ==
    LET url == a.baseUrl \o URL_GETBLINDS \o "/" \o blindId
        r == DoRequest(a, url, "GET", <<>>, TRUE, resp)
    IN  [err |-> IF r.err # NoError THEN r.err ELSE Subscript(r.body),
         ret |-> r.body.val, sent |-> <<r.req>>, log |-> r.log]

\* start_discovery trusting the PUT without reading its response
StartDiscoveryUnverified(a, getResp, putResp) ==
    LET url == a.baseUrl \o TOGGLE_DISCOVERY
        g == DoRequest(a, url, "GET", <<>>, TRUE, getResp)
        gerr == IF g.err # NoError THEN g.err ELSE Subscript(g.body)
        p == DoRequest(a, url, "PUT", <<>>, TRUE, putResp)
    IN  IF gerr # NoError
        THEN [err |-> gerr, sent |-> <<g.req>>, log |-> g.log]
        ELSE IF g.body.val
        THEN [err |-> NoError, sent |-> <<g.req>>, log |-> g.log]
        ELSE [err |-> p.err, sent |-> <<g.req, p.req>>,
              log |-> g.log \cup p.log]

\* start_discovery
StartDiscovery(a, getResp, putResp) ==
    LET url == a.baseUrl \o TOGGLE_DISCOVERY
        g == DoRequest(a, url, "GET", <<>>, TRUE, getResp)
        gerr == IF g.err # NoError THEN g.err ELSE Subscript(g.body)
        p == DoRequest(a, url, "PUT", <<>>, TRUE, putResp)
        perr == IF p.err # NoError THEN p.err ELSE Subscript(p.body)
    IN  IF gerr # NoError
        THEN [err |-> gerr, sent |-> <<g.req>>, log |-> g.log]
        ELSE IF g.body.val
        THEN [err |-> NoError, sent |-> <<g.req>>, log |-> g.log]
        ELSE IF perr # NoError
        THEN [err |-> perr, sent |-> <<g.req, p.req>>,
              log |-> g.log \cup p.log]
        ELSE IF ~p.body.val
        THEN [err |-> "EleroRequestError", sent |-> <<g.req, p.req>>,
              log |-> g.log \cup p.log]
        ELSE [err |-> NoError, sent |-> <<g.req, p.req>>,
              log |-> g.log \cup p.log]

\* stop_discovery sending the PUT whatever the GET reported
StopDiscoveryAlwaysPut(a, getResp, putResp) ==
    LET url == a.baseUrl \o TOGGLE_DISCOVERY
        g == DoRequest(a, url, "GET", <<>>, TRUE, getResp)
        gerr == IF g.err # NoError THEN g.err ELSE Subscript(g.body)
        p == DoRequest(a, url, "PUT", <<>>, TRUE, putResp)
        perr == IF p.err # NoError THEN p.err ELSE Subscript(p.body)
    IN  IF gerr # NoError
        THEN [err |-> gerr, sent |-> <<g.req>>, log |-> g.log]
        ELSE IF perr # NoError
        THEN [err |-> perr, sent |-> <<g.req, p.req>>,
              log |-> g.log \cup p.log]
        ELSE IF p.body.val
        THEN [err |-> "EleroRequestError", sent |-> <<g.req, p.req>>,
              log |-> g.log \cup p.log]
        ELSE [err |-> NoError, sent |-> <<g.req, p.req>>,
              log |-> g.log \cup p.log]

\* stop_discovery
StopDiscovery(a, getResp, putResp) ==
    LET url == a.baseUrl \o TOGGLE_DISCOVERY
        g == DoRequest(a, url, "GET", <<>>, TRUE, getResp)
        gerr == IF g.err # NoError THEN g.err ELSE Subscript(g.body)
        p == DoRequest(a, url, "PUT", <<>>, TRUE, putResp)
        perr == IF p.err # NoError THEN p.err ELSE Subscript(p.body)
    IN  IF gerr # NoError
        THEN [err |-> gerr, sent |-> <<g.req>>, log |-> g.log]
        ELSE IF ~g.body.val
        THEN [err |-> NoError, sent |-> <<g.req>>, log |-> g.log]
        ELSE IF perr # NoError
        THEN [err |-> perr, sent |-> <<g.req, p.req>>,
              log |-> g.log \cup p.log]
        ELSE IF p.body.val
        THEN [err |-> "EleroRequestError", sent |-> <<g.req, p.req>>,
              log |-> g.log \cup p.log]
        ELSE [err |-> NoError, sent |-> <<g.req, p.req>>,
              log |-> g.log \cup p.log]

----------------------------------------------------------------------------
(* EleroClient. *)

\* EleroClient.update emptying self.blinds when the listing fails
UpdateClearing(old, a, resp) ==
    LET r == GetBlinds(a, resp)
    IN  [blinds |-> IF r.err = NoError THEN r.ret ELSE <<>>,
         err |-> r.err, sent |-> r.sent, log |-> r.log]

\* EleroClient.update: the new value of self.blinds
Update(old, a, resp) ==
    LET r == GetBlinds(a, resp)
    IN  [blinds |-> IF r.err = NoError THEN r.ret ELSE old,
         err |-> r.err, sent |-> r.sent, log |-> r.log]

\* EleroClient.__init__
ClientInit(cred, resolves, pingResp, loginResp, blindsResp) ==
    LET AfterApi(i) ==
            IF i.err # NoError
            THEN [api |-> i.api, device_id |-> Unset, blinds |-> Unset,
                  err |-> i.err, sent |-> i.sent, log |-> i.log,
                  lookups |-> i.lookups]
            ELSE (CHOOSE x \in {[api |-> i.api, device_id |-> i.api.device_id,
                       blinds |-> u.blinds, err |-> u.err,
                       sent |-> i.sent \o u.sent, log |-> i.log \cup u.log,
                       lookups |-> i.lookups] :
                      u \in {Update(Unset, i.api, blindsResp)}} : TRUE)
    IN  (CHOOSE x \in {AfterApi(i) :
             i \in {ApiInit(cred, None, TRUE, TRUE, resolves, pingResp,
                            loginResp)}} : TRUE)

\* EleroClient.start_discovery
ClientStartDiscovery(a, getResp, putResp) ==
    StartDiscovery(a, getResp, putResp)

\* EleroClient.stop_discovery
ClientStopDiscovery(a, getResp, putResp) ==
    StopDiscovery(a, getResp, putResp)

\* EleroClient.get_blind
ClientGetBlind(a, blind_id, resp) ==
    GetBlind(a, blind_id, resp)

----------------------------------------------------------------------------
(* The state machine. *)

NoRun == [op |-> "none", changed |-> FALSE, twice |-> FALSE]

NoCall ==
    [op |-> "none", err |-> NoError, log |-> {}, sent |-> <<>>,
     resps |-> <<>>,
     lookups |-> <<>>, autodiscovery |-> FALSE, isLocal |-> FALSE,
     resolves |-> [h \in Hostnames |-> FALSE],
     before |-> FALSE, after |-> FALSE]

Init ==
    /\ pc = "new"
    /\ kind = "none"
    /\ api = NewApi(<<Unset, Unset>>)
    /\ blinds = Unset
    /\ client_device_id = Unset
    /\ discovery_active \in BOOLEAN
    /\ issued = Unset
    /\ listed = Unset
    /\ run = NoRun
    /\ last = NoCall

\* api = EleroAPI(username, password, host, autodiscovery, isLocal)
NewEleroAPI ==
    /\ pc = "new"
    /\ \E cred \in Credentials, host \in Hosts,
          autodiscovery \in BOOLEAN, isLocal \in BOOLEAN,
          resolves \in [Hostnames -> BOOLEAN],
          pingResp \in Responses(DeviceIds), loginResp \in Responses(Tokens) :
        \E out \in {ApiInit(cred, host, autodiscovery, isLocal, resolves,
                             pingResp, loginResp)} :
            /\ pc' = IF out.err = NoError THEN "ready" ELSE "failed"
            /\ kind' = "EleroAPI"
            /\ api' = out.api
            /\ issued' = IF Len(out.sent) >= 2 /\ Success(loginResp)
                         THEN loginResp.body.val ELSE Unset
            /\ last' = [NoCall EXCEPT
                        !.op = "EleroAPI.__init__", !.err = out.err, !.log = out.log,
                        !.sent = out.sent,
                        !.resps = SubSeq(<<pingResp, loginResp>>, 1,
                                         Len(out.sent)),
                        !.lookups = out.lookups,
                        !.autodiscovery = autodiscovery,
                        !.isLocal = isLocal, !.resolves = resolves]
    /\ UNCHANGED <<blinds, client_device_id, discovery_active, listed, run>>

\* client = EleroClient(username, password)
NewEleroClient ==
    /\ pc = "new"
    /\ \E cred \in Credentials, resolves \in [Hostnames -> BOOLEAN],
          pingResp \in Responses(DeviceIds), loginResp \in Responses(Tokens),
          blindsResp \in Responses(Listings) :
        \E out \in {ClientInit(cred, resolves, pingResp, loginResp,
                                blindsResp)} :
            /\ pc' = IF out.err = NoError THEN "ready" ELSE "failed"
            /\ kind' = "EleroClient"
            /\ api' = out.api
            /\ blinds' = out.blinds
            /\ client_device_id' = out.device_id
            /\ issued' = IF Len(out.sent) >= 2 /\ Success(loginResp)
                         THEN loginResp.body.val ELSE Unset
            /\ listed' = IF Len(out.sent) >= 3 /\ Success(blindsResp)
                         THEN blindsResp.body.val ELSE Unset
            /\ last' = [NoCall EXCEPT
                        !.op = "EleroClient.__init__", !.err = out.err, !.log = out.log,
                        !.sent = out.sent,
                        !.resps = SubSeq(<<pingResp, loginResp, blindsResp>>,
                                         1, Len(out.sent)),
                        !.lookups = out.lookups,
                        !.autodiscovery = TRUE, !.isLocal = TRUE,
                        !.resolves = resolves]
    /\ UNCHANGED <<discovery_active, run>>

\* api.get_blinds()
ApiGetBlinds ==
    /\ pc = "ready"
    /\ kind = "EleroAPI"
    /\ \E resp \in Responses(Listings) :
        \E out \in {GetBlinds(api, resp)} :
            /\ last' = [NoCall EXCEPT
                        !.op = "get_blinds", !.err = out.err, !.log = out.log,
                        !.sent = out.sent, !.resps = <<resp>>]
    /\ UNCHANGED <<pc, kind, api, blinds, client_device_id, discovery_active,
                   issued, listed, run>>

\* client.update()
ClientUpdate ==
    /\ pc = "ready"
    /\ kind = "EleroClient"
    /\ \E resp \in Responses(Listings) :
        \E out \in {Update(blinds, api, resp)} :
            /\ blinds' = out.blinds
            /\ listed' = IF Success(resp) THEN resp.body.val ELSE listed
            /\ last' = [NoCall EXCEPT
                        !.op = "update", !.err = out.err, !.log = out.log,
                        !.sent = out.sent, !.resps = <<resp>>]
    /\ UNCHANGED <<pc, kind, api, client_device_id, discovery_active, issued,
                   run>>

\* api.get_blind(blindId) and client.get_blind(blind_id)
GetBlindCall ==
    /\ pc = "ready"
    /\ \E id \in BlindIds, resp \in Responses(Blinds) :
        \E out \in {IF kind = "EleroClient"
                     THEN ClientGetBlind(api, id, resp)
                     ELSE GetBlind(api, id, resp)} :
            /\ last' = [NoCall EXCEPT
                        !.op = "get_blind", !.err = out.err, !.log = out.log,
                        !.sent = out.sent, !.resps = <<resp>>]
    /\ UNCHANGED <<pc, kind, api, blinds, client_device_id, discovery_active,
                   issued, listed, run>>

\* the start_discovery() or stop_discovery() of the object that was built
Toggle(start, getResp, putResp) ==
    CASE start /\ kind = "EleroClient" ->
             ClientStartDiscovery(api, getResp, putResp)
      [] start /\ kind # "EleroClient" ->
             StartDiscovery(api, getResp, putResp)
      [] ~start /\ kind = "EleroClient" ->
             ClientStopDiscovery(api, getResp, putResp)
      [] OTHER ->
             StopDiscovery(api, getResp, putResp)

SentPut(out) ==
    \E i \in 1..Len(out.sent) : out.sent[i].method = "PUT"

\* the state after a toggle call that returned or raised `out`, the device's
\* flag being `after` by then
Returned(name, out, resps, after) ==
    LET chg == after # discovery_active
    IN  /\ discovery_active' = after
        /\ run' = IF run.op = name
                  THEN [op |-> name, changed |-> run.changed \/ chg,
                        twice |-> run.twice \/ (run.changed /\ chg)]
                  ELSE [op |-> name, changed |-> chg, twice |-> FALSE]
        /\ last' = [NoCall EXCEPT
                    !.op = name, !.err = out.err, !.log = out.log,
                    !.sent = out.sent,
                    !.resps = SubSeq(resps, 1, Len(out.sent)),
                    !.before = discovery_active, !.after = after]

\* One start_discovery() or stop_discovery() call against the device.  The
\* GET reports the device's flag and changes nothing.  Whether a PUT follows
\* depends on the GET's response alone.  When the device answers the PUT its
\* flag either differs from what the GET reported (flipped: the device
\* carried out the toggle) or does not (it did not carry it out, or somebody
\* else flipped the flag between the GET and the PUT and the toggle undid
\* that); the PUT response reports the flag as it is then.
DiscoveryCall(name, start) ==
    /\ pc = "ready"
    /\ \E getResp \in Responses({discovery_active}) :
        \E probe \in {Toggle(start, getResp, getResp)} :
            IF ~SentPut(probe)
            THEN Returned(name, probe, <<getResp>>, discovery_active)
            ELSE \E flipped \in BOOLEAN :
                 \E after \in {discovery_active # flipped} :
                 \E putResp \in Responses({after}) :
                 \E out \in {Toggle(start, getResp, putResp)} :
                     Returned(name, out, <<getResp, putResp>>, after)
    /\ UNCHANGED <<pc, kind, api, blinds, client_device_id, issued, listed>>

StartDiscoveryCall == DiscoveryCall("start_discovery", TRUE)

StopDiscoveryCall == DiscoveryCall("stop_discovery", FALSE)

\* somebody else (another client, the device's own timeout) flips the flag
DeviceFlip ==
    /\ discovery_active' = ~discovery_active
    /\ run' = NoRun
    /\ UNCHANGED <<pc, kind, api, blinds, client_device_id, issued, listed,
                   last>>

Next ==
    \/ NewEleroAPI
    \/ NewEleroClient
    \/ ApiGetBlinds
    \/ ClientUpdate
    \/ GetBlindCall
    \/ StartDiscoveryCall
    \/ StopDiscoveryCall
    \/ DeviceFlip

Spec == Init /\ [][Next]_vars

----------------------------------------------------------------------------
(* The claims. *)

Constructors == {"EleroAPI.__init__", "EleroClient.__init__"}
Toggles == {"start_discovery", "stop_discovery"}
Methods == Toggles \cup {"get_blinds", "get_blind", "update"}

\* the state the last toggle call asked for
Want == (last.op = "start_discovery")

\* the last response the last call received
LastResp == last.resps[Len(last.resps)]

\* C1: the ping and the login are sent without the auth header; every
\* request of every later call carries the header, its value the
\* access_token of the login response; the stored token stays that one.
C1_AuthHeaderAfterLogin ==
    /\ last.op \in Constructors =>
         /\ \A i \in 1..Len(last.sent) :
              i <= 2 => last.sent[i].auth = NoHeader
         /\ Len(last.sent) >= 3 =>
              last.sent[3].auth = issued /\ issued \in Tokens
    /\ last.op \in Methods =>
         /\ Len(last.sent) >= 1
         /\ \A i \in 1..Len(last.sent) : last.sent[i].auth = issued
    /\ pc = "ready" => api.token = issued /\ issued \in Tokens

C1_Witness ==
    /\ last.op = "start_discovery"
    /\ Len(last.sent) = 2
    /\ last.sent[1].auth = "tok2"
    /\ last.sent[2].auth = "tok2"

\* C2: a transport failure of any request makes the call fail with
\* EleroApiError, and the failing URL is logged.
C2_TransportFailureIsApiError ==
    (last.op # "none" /\ Len(last.resps) >= 1 /\ LastResp.kind = "raise") =>
        /\ last.err = "EleroApiError"
        /\ last.sent[Len(last.sent)].url \in last.log

\* C3: with autodiscovery, the first of raspberrypi.local and eleropi.local
\* that resolves becomes the host; when neither resolves the constructor
\* raises NoDeviceAvailable after two lookups and no request.
C3_AutodiscoveryProbesBoth ==
    (last.op = "EleroAPI.__init__" /\ last.autodiscovery) =>
        /\ last.resolves[RASPBERRYPI] =>
             api.host = RASPBERRYPI /\ last.lookups = <<RASPBERRYPI>>
        /\ (~last.resolves[RASPBERRYPI] /\ last.resolves[ELEROPI]) =>
             api.host = ELEROPI /\ last.lookups = <<RASPBERRYPI, ELEROPI>>
        /\ (~last.resolves[RASPBERRYPI] /\ ~last.resolves[ELEROPI]) =>
             /\ last.err = "NoDeviceAvailable"
             /\ last.lookups = <<RASPBERRYPI, ELEROPI>>
             /\ last.sent = <<>>

\* C4: constructing the facade resolves no hostname, cannot fail because of
\* name resolution, and sends every request to http://localhost:8000.
C4_FacadeNeverResolves ==
    last.op = "EleroClient.__init__" =>
        /\ last.lookups = <<>>
        /\ last.err \notin {"socket.gaierror", "NoDeviceAvailable"}
        /\ \A i \in 1..Len(last.sent) :
             last.sent[i].url \in
                {"http://localhost:8000" \o u :
                    u \in {URL_PING, URL_LOGIN, URL_GETBLINDS}}

\* C5: a toggle call whose GET reports the state that was not asked for
\* sends exactly the GET and then one PUT; it returns normally only if the
\* PUT response reports the state asked for, and raises EleroRequestError
\* if it reports the other one.  No toggle call returns normally when the
\* last response it received reports the state that was not asked for.
C5_ToggleVerifiesPut ==
    last.op \in Toggles =>
        /\ Len(last.sent) \in {1, 2}
        /\ Len(last.resps) = Len(last.sent)
        /\ last.sent[1].method = "GET"
        /\ (Success(last.resps[1]) /\ last.resps[1].body.val # Want) =>
             /\ Len(last.sent) = 2
             /\ last.sent[2].method = "PUT"
             /\ last.sent[2].url = last.sent[1].url
             /\ last.err = NoError =>
                  Success(last.resps[2]) /\ last.resps[2].body.val = Want
             /\ (Success(last.resps[2]) /\ last.resps[2].body.val # Want) =>
                  last.err = "EleroRequestError"
        /\ last.err = NoError =>
             Success(LastResp) /\ LastResp.body.val = Want

C5_Witness ==
    /\ last.op = "start_discovery"
    /\ Len(last.sent) = 2
    /\ Success(last.resps[1]) /\ ~last.resps[1].body.val
    /\ Success(last.resps[2]) /\ ~last.resps[2].body.val
    /\ last.err = "EleroRequestError"

\* C6: a toggle call whose GET reports the state asked for sends that GET
\* and nothing else, leaves the device's flag as it was and returns without
\* error; and in a run of identical toggle calls, nobody else touching the
\* device, the flag changes at most once.
C6_ToggleIdempotent ==
    /\ (last.op \in Toggles /\ Success(last.resps[1])
          /\ last.resps[1].body.val = Want) =>
         /\ Len(last.sent) = 1
         /\ last.sent[1].method = "GET"
         /\ last.err = NoError
         /\ last.after = last.before
    /\ ~run.twice

C6_Witness ==
    /\ last.op = "stop_discovery"
    /\ run.op = "stop_discovery"
    /\ run.changed
    /\ Success(last.resps[1]) /\ ~last.resps[1].body.val
    /\ Len(last.sent) = 1
    /\ last.err = NoError

\* C7: a constructor sends the ping, then the login, then (the facade) the
\* listing; each is sent only if the one before succeeded; a failure makes
\* the constructor raise and send nothing more; when all succeed the object
\* holds isAuthenticated, the ping's device id and the login's token.
C7_ConstructionOrder ==
    last.op \in Constructors =>
        LET n == Len(last.sent)
            all == IF last.op = "EleroClient.__init__" THEN 3 ELSE 2
            path == <<URL_PING, URL_LOGIN, URL_GETBLINDS>>
            method == <<"GET", "POST", "GET">>
        IN  /\ n <= all
            /\ Len(last.resps) = n
            /\ \A i \in 1..n :
                 /\ last.sent[i].url = api.baseUrl \o path[i]
                 /\ last.sent[i].method = method[i]
                 /\ i < n => Success(last.resps[i])
            /\ (n >= 1 /\ ~Success(last.resps[n])) => last.err # NoError
            /\ (last.err = NoError) <=> (n = all /\ Success(last.resps[n]))
            /\ (last.err = NoError) <=> (pc = "ready")
            /\ (last.err # NoError) <=> (pc = "failed")
            /\ pc = "ready" =>
                 /\ api.isAuthenticated
                 /\ api.device_id = last.resps[1].body.val
                 /\ api.token = last.resps[2].body.val
                 /\ last.op = "EleroClient.__init__" =>
                      client_device_id = last.resps[1].body.val

C7_Witness ==
    /\ last.op = "EleroClient.__init__"
    /\ pc = "ready"
    /\ Len(last.sent) = 3
    /\ api.device_id = "def456"
    /\ api.token = "tok2"

\* C8: a response to get_blinds() or get_blind(id) whose status is not 200
\* makes the call raise EleroRequestError.
C8_Non200IsRequestError ==
    (last.op \in {"get_blinds", "get_blind"} /\ last.resps[1].kind = "http"
        /\ last.resps[1].status # HTTP_OK) =>
        last.err = "EleroRequestError"

\* C9: the facade's blinds are the listing of the most recent successful
\* listing response, whatever calls came after it.
C9_BlindsAreLastListing ==
    (kind = "EleroClient" /\ pc = "ready") => blinds = listed

C9_Witness ==
    /\ kind = "EleroClient"
    /\ last.op = "update"
    /\ last.err # NoError
    /\ Len(last.sent) = 1
    /\ blinds = <<[blind_id |-> "b1"], [blind_id |-> "b2"]>>

\* C10: isAuthenticated is never true while no token is stored.
C10_AuthenticatedHasToken ==
    api.isAuthenticated => api.token # Unset

====
